---- MODULE Spec2Model ----
(***************************************************************************)
(* A model of gomenutree (src/gomenutree.go): the menu tree, the per-menu  *)
(* option list and selection cursor, hotkey assignment, the decoding of a  *)
(* raw terminal read, and the Display loop with execute and render.        *)
(*                                                                         *)
(* Strings are sequences of code points (ASCII), so that strings.ToUpper,  *)
(* strings.Split and strings.Replace are computed and not assumed.         *)
(* Menus are pointers: the model's menu identities.  The terminal output   *)
(* of one handler step is the sequence of events it printed.               *)
(***************************************************************************)
EXTENDS Integers, Sequences, FiniteSets, TLC

\* ------------------------------------------------------------- constants
\* gomenutree.go:38-46, the key codes
up == 65
down == 66
left == 68
right == 67
escape == 27
enter == 13
backtick == 96
exitX == 120
ctrlC == 3

\* the commands getInput returns, as Go strings
sUP == <<85, 80>>
sDOWN == <<68, 79, 87, 78>>
sBACK == <<66, 65, 67, 75>>
sENTER == <<69, 78, 84, 69, 82>>
sTOGGLE == <<84, 79, 71, 71, 76, 69>>
sEXIT == <<69, 88, 73, 84>>

\* carriage return and line feed
CR == 13
LF == 10

\* ---------------------------------------------------------------- bounds
\* options a menu may hold, entries a parent's child list may hold
MaxOpts == 3
MaxSubs == 1

\* ------------------------------------------------------- string functions
\* unicode.ToUpper on an ASCII code point
ToUpperCh(c) == IF c >= 97 /\ c <= 122 THEN c - 32 ELSE c

\* strings.ToUpper
ToUpper(s) == [i \in DOMAIN s |-> ToUpperCh(s[i])]

\* strings.Split(s, ""): one string per character
SplitChars(s) == [i \in DOMAIN s |-> <<s[i]>>]

\* strings.Replace(s, <<a, b>>, <<c>>, -1), scanning from position k:
\* non-overlapping matches, left to right
RECURSIVE ReplacePair(_, _, _, _, _)
ReplacePair(s, a, b, c, k) ==
    IF k > Len(s) THEN <<>>
    ELSE IF k < Len(s) /\ s[k] = a /\ s[k + 1] = b
         THEN <<c>> \o ReplacePair(s, a, b, c, k + 2)
         ELSE <<s[k]>> \o ReplacePair(s, a, b, c, k + 1)

\* strings.Split(s, "\n") from position k, cur the piece being collected
RECURSIVE SplitLF(_, _, _)
SplitLF(s, k, cur) ==
    IF k > Len(s) THEN <<cur>>
    ELSE IF s[k] = LF THEN <<cur>> \o SplitLF(s, k + 1, <<>>)
         ELSE SplitLF(s, k + 1, Append(cur, s[k]))

\* the normalization with "\r\n" replaced by "\r": the break is lost
NormalizePromptJoins(p) ==
    ReplacePair(ReplacePair(p, CR, LF, CR, 1), LF, CR, LF, 1)

\* render, lines 179-181: the prompt as stored back, and its lines
NormalizePrompt(p) == ReplacePair(ReplacePair(p, CR, LF, LF, 1), LF, CR, LF, 1)
PromptLines(p) == SplitLF(NormalizePrompt(p), 1, <<>>)

\* ----------------------------------------------------------------- input
\* getInput with the escape-sequence test n >= 2 in place of n == 3
getInputTwoBytes(n, bb) ==
    IF n >= 2
    THEN CASE bb[3] = up -> sUP
           [] bb[3] = down -> sDOWN
           [] bb[3] = left -> sBACK
           [] bb[3] = right -> sENTER
           [] OTHER -> sDOWN
    ELSE CASE bb[1] = enter -> sENTER
           [] bb[1] = escape -> sBACK
           [] bb[1] = backtick -> sTOGGLE
           [] bb[1] = exitX \/ bb[1] = ctrlC -> sEXIT
           [] OTHER -> <<bb[1]>>

\* getInput, lines 416-447: n bytes were read into the 3-byte buffer bb
getInput(n, bb) ==
    IF n = 3
    THEN CASE bb[3] = up -> sUP
           [] bb[3] = down -> sDOWN
           [] bb[3] = left -> sBACK
           [] bb[3] = right -> sENTER
           [] OTHER -> sDOWN
    ELSE CASE bb[1] = enter -> sENTER
           [] bb[1] = escape -> sBACK
           [] bb[1] = backtick -> sTOGGLE
           [] bb[1] = exitX \/ bb[1] = ctrlC -> sEXIT
           [] OTHER -> <<bb[1]>>

\* ----------------------------------------------------------------- state
\* the menus the application created with NewMenu (pointers)
Menus == {"Home", "A", "B"}
\* NewMenuTree(homeMenu): the home-menu pointer never changes after line 56
homeMenu == "Home"
\* the nil pointer and the nil function
Nil == "nil"
\* the callbacks the application binds to options
Funcs == {"f", "g"}
\* the prompt functions the application passes, and what each returns
PromptFuncs == {"pf"}
CallPromptFunction(pf) == <<113, LF, CR, 114>>

VARIABLES
    name,             \* Menu.name
    prompt,           \* Menu.prompt
    promptFunction,   \* Menu.promptFunction, Nil or a prompt function
    options,          \* Menu.options: option name -> callback
    optionsOrder,     \* Menu.optionsOrder
    selection,        \* Menu.selection
    hotKeys,          \* Menu.hotKeys: one-letter string -> item index
    lastRenderLines,  \* Menu.lastRenderLines
    currentMenu,      \* MenuTree.currentMenu
    previousMenu,     \* MenuTree.previousMenu, Nil or a menu
    subMenuMap,       \* MenuTree.subMenuMap: parent -> slice of children
    arrays,           \* the backing arrays of the slices of children
    displaying,       \* MenuTree.displaying
    Redraw,           \* MenuTree.Redraw
    redrawPrevious,   \* Display's local redrawPrevious
    pc,               \* where control is: in the application or in Display
    input,            \* Display's local input, the last command of the loop
    out,              \* what the last step printed to the terminal
    cursor,           \* the terminal row of the cursor, counted from the
                      \* row where the last render began
    call,             \* the last call the application made on the package
    bb,               \* getInput's read buffer
    n,                \* getInput's byte count of the read
    ret               \* what getInput returned for that read

menuVars == <<name, prompt, promptFunction, options, optionsOrder, selection,
              hotKeys, lastRenderLines>>
treeVars == <<currentMenu, previousMenu, subMenuMap, arrays, displaying,
              Redraw>>
ctlVars == <<redrawPrevious, pc, input, out, cursor, call>>
readVars == <<bb, n, ret>>
vars == <<menuVars, treeVars, ctlVars, readVars>>

\* the row of the cursor after the terminal took the events: a cursor-up
\* of k rows moves it up, a print of k rows moves it down, and a menu block
\* (render, lines 228-246) begins on the row of the cursor, which becomes
\* row 0, and leaves the cursor on the block's last row
RECURSIVE cursorAfter(_, _)
cursorAfter(row, events) ==
    IF events = <<>> THEN row
    ELSE LET e == Head(events)
         IN cursorAfter(CASE e[1] = "cursorUp" -> row - e[2]
                          [] e[1] = "print" -> row + e[2]
                          [] e[1] = "block" -> e[2]
                          [] OTHER -> row,
                        Tail(events))

\* the mutable state as one value, so that a handler's statements compose
State ==
    [prompt |-> prompt, promptFunction |-> promptFunction, options |-> options,
     optionsOrder |-> optionsOrder, selection |-> selection,
     hotKeys |-> hotKeys, lastRenderLines |-> lastRenderLines,
     currentMenu |-> currentMenu, previousMenu |-> previousMenu,
     subMenuMap |-> subMenuMap, arrays |-> arrays,
     displaying |-> displaying, Redraw |-> Redraw,
     redrawPrevious |-> redrawPrevious, pc |-> pc, out |-> out,
     cursor |-> cursor]

\* the state a handler leaves behind
Becomes(s) ==
    /\ prompt' = s.prompt
    /\ promptFunction' = s.promptFunction
    /\ options' = s.options
    /\ optionsOrder' = s.optionsOrder
    /\ selection' = s.selection
    /\ hotKeys' = s.hotKeys
    /\ lastRenderLines' = s.lastRenderLines
    /\ currentMenu' = s.currentMenu
    /\ previousMenu' = s.previousMenu
    /\ subMenuMap' = s.subMenuMap
    /\ arrays' = s.arrays
    /\ displaying' = s.displaying
    /\ Redraw' = s.Redraw
    /\ redrawPrevious' = s.redrawPrevious
    /\ pc' = s.pc
    /\ out' = s.out
    /\ cursor' = cursorAfter(s.cursor, s.out)
    /\ UNCHANGED name

\* the empty map
EmptyMap == [x \in {} |-> 0]

\* ---------------------------------------------------------------- slices
\* a []*Menu value is a slice header: the backing array it points into, the
\* offset of its first element there and its length; two headers on one
\* array share its elements
Slice(arr, off, len) == [arr |-> arr, off |-> off, len |-> len]

\* the arrays: none (of a nil or empty slice), the array of the slice the
\* application keeps and passes to AddSubMenus, and for each parent the
\* array the package allocated for its children (line 127 or a growing
\* append); no call hands a slice of the map back, so that one is the
\* parent's alone
NilArray == <<"nil", "">>
appArray == <<"app", "s">>
ownArray(parentMenu) == <<"own", parentMenu>>
ArrayIds == {NilArray, appArray} \cup {ownArray(m) : m \in Menus}

\* the heap in which the application's array holds app
Heap(app) == [a \in ArrayIds |-> IF a = appArray THEN app ELSE <<>>]

\* cap(sl) and the elements sl[0], ..., sl[len-1]
sliceCap(s, sl) == Len(s.arrays[sl.arr]) - sl.off
elems(s, sl) == [i \in 1 .. sl.len |-> s.arrays[sl.arr][sl.off + i]]

\* len(m.optionsOrder), and the children of m with their count (0 when m
\* has no entry in subMenuMap)
optionCount(s, m) == Len(s.optionsOrder[m])
hasSubMenus(s, m) == m \in DOMAIN s.subMenuMap
subMenus(s, m) ==
    IF hasSubMenus(s, m) THEN elems(s, s.subMenuMap[m]) ELSE <<>>
submenuCount(s, m) == Len(subMenus(s, m))

\* ------------------------------------------------------- terminal output
\* an event is <<kind, rows or count, lines>>
CursorUp(k) == <<"cursorUp", k, <<>>>>
Println(tag, rows) == <<"print", rows, <<tag>>>>
\* a line of the menu block: its kind, the item's hotkey, the cursor marker
Line(kind, hk, sel) == <<kind, hk, sel>>

\* ---------------------------------------------------------------- hotkeys
\* assignHotkey without the test that the letter is free
RECURSIVE assignHotkeyTakesFirst(_, _, _, _)
assignHotkeyTakesFirst(hk, nm, index, k) ==
    IF k > Len(nm) THEN [hotKeys |-> hk, hotkey |-> <<>>]
    ELSE LET ch == SplitChars(nm)[k]
             uch == ToUpper(ch)
         IN IF uch = <<88>>
            THEN assignHotkeyTakesFirst(hk, nm, index, k + 1)
            ELSE [hotKeys |-> hk @@ (uch :> index), hotkey |-> ch]

\* assignHotkey, lines 389-401, from character k of the name on: the table
\* after the call and the hotkey returned (<<>> for "")
RECURSIVE assignHotkeyFrom(_, _, _, _)
assignHotkeyFrom(hk, nm, index, k) ==
    IF k > Len(nm) THEN [hotKeys |-> hk, hotkey |-> <<>>]
    ELSE LET ch == SplitChars(nm)[k]
             uch == ToUpper(ch)
         IN IF uch = <<88>> THEN assignHotkeyFrom(hk, nm, index, k + 1)
            ELSE IF uch \notin DOMAIN hk
                 THEN [hotKeys |-> hk @@ (uch :> index), hotkey |-> ch]
                 ELSE assignHotkeyFrom(hk, nm, index, k + 1)

assignHotkey(hk, nm, index) == assignHotkeyFrom(hk, nm, index, 1)

\* render's two item loops, lines 186-198 and 201-212: items are the names
\* still to process, i the index of the first of them; the result is the
\* hotkey table and the item lines
RECURSIVE renderItems(_, _, _, _, _, _)
renderItems(hk, items, i, sel, kind, acc) ==
    IF items = <<>> THEN [hotKeys |-> hk, lines |-> acc]
    ELSE LET a == assignHotkey(hk, Head(items), i)
         IN renderItems(a.hotKeys, Tail(items), i + 1, sel, kind,
                        Append(acc, Line(kind, a.hotkey, i = sel)))

\* ----------------------------------------------------------------- render
\* the names render hands to assignHotkey for the children, line 203
childNames(smm) == [i \in DOMAIN smm |-> name[smm[i]]]

\* render storing the number of lines, without the header row
renderCountsLines(s) ==
    LET cm == s.currentMenu
        nOpts == optionCount(s, cm)
        erase == IF s.lastRenderLines[cm] > 0 /\ s.Redraw
                 THEN <<CursorUp(s.lastRenderLines[cm])>>
                 ELSE <<>>
        p1 == IF s.promptFunction[cm] # Nil
              THEN CallPromptFunction(s.promptFunction[cm])
              ELSE s.prompt[cm]
        p2 == IF p1 # <<>> THEN NormalizePrompt(p1) ELSE p1
        promptLines == IF p1 # <<>>
                       THEN [i \in DOMAIN PromptLines(p1) |->
                                Line("prompt", <<>>, FALSE)]
                       ELSE <<>>
        opts == renderItems(EmptyMap, s.optionsOrder[cm], 0,
                            s.selection[cm], "option", <<>>)
        optLines == IF nOpts > 0
                    THEN <<Line("Options:", <<>>, FALSE)>> \o opts.lines
                    ELSE <<>>
        subs == IF hasSubMenus(s, cm)
                THEN renderItems(opts.hotKeys, childNames(subMenus(s, cm)),
                                 nOpts, s.selection[cm], "subMenu", <<>>)
                ELSE [hotKeys |-> opts.hotKeys, lines |-> <<>>]
        subLines == IF hasSubMenus(s, cm)
                    THEN <<Line("SubMenus:", <<>>, FALSE)>> \o subs.lines
                    ELSE <<>>
        footer == IF s.previousMenu # Nil
                  THEN Line("back", name[s.previousMenu], FALSE)
                  ELSE Line("exit", <<>>, FALSE)
        lines == <<Line("Menu:", name[cm], FALSE)>> \o promptLines
                 \o optLines \o subLines
                 \o <<Line("", <<>>, FALSE), footer>>
        \* Println(header) is a blank row and the rule; every line but the
        \* last ends in a newline
        rows == 2 + (Len(lines) - 1)
    IN [s EXCEPT !.hotKeys[cm] = subs.hotKeys,
                 !.prompt[cm] = p2,
                 !.lastRenderLines[cm] = Len(lines),
                 !.out = @ \o erase \o << <<"block", rows, lines>> >>]

\* render, lines 168-247
render(s) ==
    LET cm == s.currentMenu
        nOpts == optionCount(s, cm)
        erase == IF s.lastRenderLines[cm] > 0 /\ s.Redraw
                 THEN <<CursorUp(s.lastRenderLines[cm])>>
                 ELSE <<>>
        p1 == IF s.promptFunction[cm] # Nil
              THEN CallPromptFunction(s.promptFunction[cm])
              ELSE s.prompt[cm]
        p2 == IF p1 # <<>> THEN NormalizePrompt(p1) ELSE p1
        promptLines == IF p1 # <<>>
                       THEN [i \in DOMAIN PromptLines(p1) |->
                                Line("prompt", <<>>, FALSE)]
                       ELSE <<>>
        opts == renderItems(EmptyMap, s.optionsOrder[cm], 0,
                            s.selection[cm], "option", <<>>)
        optLines == IF nOpts > 0
                    THEN <<Line("Options:", <<>>, FALSE)>> \o opts.lines
                    ELSE <<>>
        subs == IF hasSubMenus(s, cm)
                THEN renderItems(opts.hotKeys, childNames(subMenus(s, cm)),
                                 nOpts, s.selection[cm], "subMenu", <<>>)
                ELSE [hotKeys |-> opts.hotKeys, lines |-> <<>>]
        subLines == IF hasSubMenus(s, cm)
                    THEN <<Line("SubMenus:", <<>>, FALSE)>> \o subs.lines
                    ELSE <<>>
        footer == IF s.previousMenu # Nil
                  THEN Line("back", name[s.previousMenu], FALSE)
                  ELSE Line("exit", <<>>, FALSE)
        lines == <<Line("Menu:", name[cm], FALSE)>> \o promptLines
                 \o optLines \o subLines
                 \o <<Line("", <<>>, FALSE), footer>>
        \* Println(header) is a blank row and the rule; every line but the
        \* last ends in a newline
        rows == 2 + (Len(lines) - 1)
    IN [s EXCEPT !.hotKeys[cm] = subs.hotKeys,
                 !.prompt[cm] = p2,
                 !.lastRenderLines[cm] = Len(lines) + 1,
                 !.out = @ \o erase \o << <<"block", rows, lines>> >>]

\* ChangeMenu without the home-menu case of lines 157-159
ChangeMenuKeepsPrevious(s, menu) ==
    LET s1 == [s EXCEPT !.previousMenu = s.currentMenu,
                        !.currentMenu = menu,
                        !.lastRenderLines[menu] = 0]
    IN IF s.displaying THEN render(s1) ELSE s1

\* ChangeMenu, lines 155-165
ChangeMenu(s, menu) ==
    LET s1 == [s EXCEPT !.previousMenu = IF menu = homeMenu THEN Nil
                                         ELSE s.currentMenu,
                        !.currentMenu = menu,
                        !.lastRenderLines[menu] = 0]
    IN IF s.displaying THEN render(s1) ELSE s1

\* execute entering the first child whatever the offset
executeFirstChild(s, index) ==
    LET cm == s.currentMenu
        nOpts == optionCount(s, cm)
        subIndex == index - nOpts
        pressAnyKey == Println("(Press any key to continue)", 1)
    IN IF index >= 0 /\ index < nOpts
       THEN LET fName == s.optionsOrder[cm][index + 1]
                banner == (IF s.Redraw THEN <<CursorUp(2)>> ELSE <<>>)
                          \o <<Println("Executing", 2)>>
                s1 == [s EXCEPT !.lastRenderLines[cm] = 0,
                                !.out = @ \o banner]
            IN IF fName \in DOMAIN s.options[cm]
               THEN [s1 EXCEPT !.out = @ \o <<Println("Output", 1),
                                   <<"call", 0, <<s.options[cm][fName]>>>> >>,
                               !.pc = "callback"]
               ELSE [s1 EXCEPT !.out = @ \o
                         <<Println("Error, function not found", 2),
                           pressAnyKey>>]
       ELSE IF ~hasSubMenus(s, cm)
            THEN [s EXCEPT !.out = @ \o
                      <<Println("Error, menu not found", 2), pressAnyKey>>,
                           !.lastRenderLines[cm] = @ + 2,
                           !.pc = "errkey"]
            ELSE IF subIndex >= 0 /\ subIndex < submenuCount(s, cm)
                 THEN ChangeMenu(s, subMenus(s, cm)[1])
                 ELSE [s EXCEPT !.out = @ \o
                           <<Println("Error, function not found", 2),
                             pressAnyKey>>,
                                !.lastRenderLines[cm] = @ + 2,
                                !.pc = "errkey"]

\* execute, lines 325-386, up to where it blocks: in the callback
\* (pc "callback") or on the key of an error path (pc "errkey")
execute(s, index) ==
    LET cm == s.currentMenu
        nOpts == optionCount(s, cm)
        subIndex == index - nOpts
        pressAnyKey == Println("(Press any key to continue)", 1)
    IN IF index >= 0 /\ index < nOpts
       THEN LET fName == s.optionsOrder[cm][index + 1]
                banner == (IF s.Redraw THEN <<CursorUp(2)>> ELSE <<>>)
                          \o <<Println("Executing", 2)>>
                s1 == [s EXCEPT !.lastRenderLines[cm] = 0,
                                !.out = @ \o banner]
            IN IF fName \in DOMAIN s.options[cm]
               THEN [s1 EXCEPT !.out = @ \o <<Println("Output", 1),
                                   <<"call", 0, <<s.options[cm][fName]>>>> >>,
                               !.pc = "callback"]
               ELSE [s1 EXCEPT !.out = @ \o
                         <<Println("Error, function not found", 2),
                           pressAnyKey>>]
       ELSE IF ~hasSubMenus(s, cm)
            THEN [s EXCEPT !.out = @ \o
                      <<Println("Error, menu not found", 2), pressAnyKey>>,
                           !.lastRenderLines[cm] = @ + 2,
                           !.pc = "errkey"]
            ELSE IF subIndex >= 0 /\ subIndex < submenuCount(s, cm)
                 THEN ChangeMenu(s, subMenus(s, cm)[subIndex + 1])
                 ELSE [s EXCEPT !.out = @ \o
                           <<Println("Error, function not found", 2),
                             pressAnyKey>>,
                                !.lastRenderLines[cm] = @ + 2,
                                !.pc = "errkey"]

\* ------------------------------------------------------------ option list
\* a run-time panic of the range loop (slice bounds out of range)
Panic == << <<-1>> >>

\* the removal as a swap with the last element, which loses the order
removeNameSwap(order, nm) ==
    LET hits == {i \in DOMAIN order : order[i] = nm}
    IN IF hits = {} THEN order
       ELSE LET i == CHOOSE x \in hits : TRUE
            IN [k \in 1 .. Len(order) - 1 |->
                   IF k = i THEN order[Len(order)] ELSE order[k]]

\* the loop leaving the order sequence as it is
removeNameKeeps(order, nm) == order

\* the loop of AddOption and DeleteOption, lines 106-110 and 117-121: the
\* range reads element i of the slice as it was when the loop began (arr,
\* the backing array, which the removal shifts in place), while the
\* removal slices m.optionsOrder, whose length is now len
RECURSIVE removeLoop(_, _, _, _)
removeLoop(arr, len, i, nm) ==
    IF i > Len(arr) THEN SubSeq(arr, 1, len)
    ELSE IF arr[i] = nm
         THEN IF i > len THEN Panic
              ELSE removeLoop([k \in DOMAIN arr |->
                                  IF k >= i /\ k < len THEN arr[k + 1]
                                  ELSE arr[k]],
                              len - 1, i + 1, nm)
         ELSE removeLoop(arr, len, i + 1, nm)

removeName(order, nm) == removeLoop(order, Len(order), 1, nm)

\* m.options[name] = function, and delete(m.options, name)
mapPut(f, k, v) == [x \in DOMAIN f \cup {k} |-> IF x = k THEN v ELSE f[x]]
mapDelete(f, k) == [x \in DOMAIN f \ {k} |-> f[x]]

\* ------------------------------------------------------- the child lists
\* the capacities the allocator rounds a []*Menu up to (size classes of
\* 8 to 1024 bytes, in pointers of 8 bytes)
SizeClasses == {1, 2, 3, 4, 6, 8, 10, 12, 14, 16, 18, 20, 22, 24, 26, 28, 30,
                32, 36, 40, 44, 48, 52, 56, 60, 64, 72, 80, 88, 96, 112, 128}

roundupCap(c) ==
    IF \E k \in SizeClasses : k >= c
    THEN CHOOSE k \in SizeClasses :
             k >= c /\ \A j \in SizeClasses : j >= c => k <= j
    ELSE c

\* the capacity append asks for when oldCap is too small for newLen
RECURSIVE growLoop(_, _)
growLoop(c, newLen) ==
    IF c >= newLen THEN c ELSE growLoop(c + (c + 768) \div 4, newLen)

growCap(oldCap, newLen) ==
    IF newLen > 2 * oldCap THEN newLen
    ELSE IF oldCap < 256 THEN 2 * oldCap
         ELSE growLoop(oldCap, newLen)

\* m.subMenuMap[parentMenu] = append(m.subMenuMap[parentMenu], xs...),
\* lines 129 and 138: within the capacity the elements are written into
\* the array the slice points into, whoever shares it; beyond it a new
\* array gets the old elements and xs
appendSlice(s, parentMenu, xs) ==
    LET sl == s.subMenuMap[parentMenu]
        newLen == sl.len + Len(xs)
        newCap == roundupCap(growCap(sliceCap(s, sl), newLen))
    IN IF newLen <= sliceCap(s, sl)
       THEN [s EXCEPT
                !.arrays[sl.arr] =
                    [i \in DOMAIN @ |->
                        IF i > sl.off + sl.len /\ i <= sl.off + newLen
                        THEN xs[i - sl.off - sl.len] ELSE @[i]],
                !.subMenuMap[parentMenu] = Slice(sl.arr, sl.off, newLen)]
       ELSE [s EXCEPT
                !.arrays[ownArray(parentMenu)] =
                    elems(s, sl) \o xs \o [i \in 1 .. newCap - newLen |-> Nil],
                !.subMenuMap[parentMenu] =
                    Slice(ownArray(parentMenu), 0, newLen)]

\* the body of AddSubMenu, lines 126-130
subMenuAdded(s, parentMenu, childMenu) ==
    IF parentMenu \notin DOMAIN s.subMenuMap
    THEN [s EXCEPT
             !.arrays[ownArray(parentMenu)] = <<childMenu>>,
             !.subMenuMap = mapPut(@, parentMenu,
                                   Slice(ownArray(parentMenu), 0, 1))]
    ELSE appendSlice(s, parentMenu, <<childMenu>>)

\* the body of AddSubMenus, lines 135-139: without an entry the map keeps
\* the caller's slice itself, array and all
subMenusAdded(s, parentMenu, childMenus) ==
    IF parentMenu \notin DOMAIN s.subMenuMap
    THEN [s EXCEPT !.subMenuMap = mapPut(@, parentMenu, childMenus)]
    ELSE appendSlice(s, parentMenu, elems(s, childMenus))

\* the body of DeleteSubMenu, lines 144-151: the elements after the first
\* occurrence move one place down in the array, in place, and the slice
\* loses one in length; the array's slot past the new end keeps its value
subMenuDeleted(s, parentMenu, childMenu) ==
    IF parentMenu \notin DOMAIN s.subMenuMap THEN s
    ELSE LET sl == s.subMenuMap[parentMenu]
             smm == elems(s, sl)
             hits == {i \in DOMAIN smm : smm[i] = childMenu}
         IN IF hits = {} THEN s
            ELSE LET i == CHOOSE x \in hits : \A y \in hits : x <= y
                 IN [s EXCEPT
                        !.arrays[sl.arr] =
                            [k \in DOMAIN @ |->
                                IF k >= sl.off + i /\ k < sl.off + sl.len
                                THEN @[k + 1] ELSE @[k]],
                        !.subMenuMap[parentMenu] =
                            Slice(sl.arr, sl.off, sl.len - 1)]

\* the map and the arrays after AddSubMenu(parentMenu, c) for each c of
\* children, in order
RECURSIVE built(_, _, _)
built(s, parentMenu, children) ==
    IF children = <<>> THEN s
    ELSE built(subMenuAdded(s, parentMenu, Head(children)), parentMenu,
               Tail(children))

\* ------------------------------------------------- the application's calls
\* the application runs before and between sessions and inside a callback
AppRuns == pc \in {"idle", "callback"}

\* the record of a call: operation, menu, second menu, string, function,
\* list of menus, and the sequence a call that edits one found (the option
\* names for AddOption and DeleteOption, the children for DeleteSubMenu)
Call(op, m, m2, str, fn, list, found) == <<op, m, m2, str, fn, list, found>>
NoCall == Call("", Nil, Nil, <<>>, Nil, <<>>, <<>>)

\* what every step of the application leaves alone
AppStep(c) ==
    /\ call' = c
    /\ input' = <<>>
    /\ UNCHANGED readVars

\* what every step of Display leaves alone
DisplayStep(cmd) ==
    /\ call' = NoCall
    /\ input' = cmd
    /\ UNCHANGED readVars

\* the state at the start of a step: nothing printed yet
Start == [State EXCEPT !.out = <<>>]

\* AddOption, lines 104-112
AddOption(m, nm, function) ==
    /\ AppRuns
    /\ removeName(optionsOrder[m], nm) # Panic
    /\ Becomes([Start EXCEPT
           !.options[m] = mapPut(@, nm, function),
           !.optionsOrder[m] = Append(removeName(@, nm), nm)])
    /\ AppStep(Call("AddOption", m, Nil, nm, function, <<>>,
                    optionsOrder[m]))

\* DeleteOption, lines 115-122
DeleteOption(m, nm) ==
    /\ AppRuns
    /\ removeName(optionsOrder[m], nm) # Panic
    /\ Becomes([Start EXCEPT
           !.options[m] = mapDelete(@, nm),
           !.optionsOrder[m] = removeName(@, nm)])
    /\ AppStep(Call("DeleteOption", m, Nil, nm, Nil, <<>>,
                    optionsOrder[m]))

\* AddSubMenu, lines 125-131
AddSubMenu(parentMenu, childMenu) ==
    /\ AppRuns
    /\ Becomes(subMenuAdded(Start, parentMenu, childMenu))
    /\ AppStep(Call("AddSubMenu", parentMenu, childMenu, <<>>, Nil, <<>>,
                    <<>>))

\* AddSubMenus, lines 134-140; childMenus is the caller's slice
AddSubMenus(parentMenu, childMenus) ==
    /\ AppRuns
    /\ Becomes(subMenusAdded(Start, parentMenu, childMenus))
    /\ AppStep(Call("AddSubMenus", parentMenu, Nil, <<>>, Nil,
                    elems(State, childMenus), <<>>))

\* DeleteSubMenu, lines 143-152
DeleteSubMenu(parentMenu, childMenu) ==
    /\ AppRuns
    /\ Becomes(subMenuDeleted(Start, parentMenu, childMenu))
    /\ AppStep(Call("DeleteSubMenu", parentMenu, childMenu, <<>>, Nil, <<>>,
                    subMenus(State, parentMenu)))

\* SetPrompt re-rendering when a session is active
SetPromptRenders(p, pf) ==
    /\ AppRuns
    /\ LET s1 == IF pf # Nil
                 THEN [Start EXCEPT !.prompt[currentMenu] = <<>>,
                                    !.promptFunction[currentMenu] = pf]
                 ELSE [Start EXCEPT !.prompt[currentMenu] = p,
                                    !.promptFunction[currentMenu] = Nil]
       IN Becomes(IF displaying THEN render(s1) ELSE s1)
    /\ call' = Call("SetPrompt", Nil, Nil, p, pf, <<>>, <<>>)
    /\ input' = <<>>
    /\ UNCHANGED readVars

\* SetPrompt, lines 93-101
SetPrompt(p, pf) ==
    /\ AppRuns
    /\ Becomes(IF pf # Nil
               THEN [Start EXCEPT !.prompt[currentMenu] = <<>>,
                                  !.promptFunction[currentMenu] = pf]
               ELSE [Start EXCEPT !.prompt[currentMenu] = p,
                                  !.promptFunction[currentMenu] = Nil])
    /\ AppStep(Call("SetPrompt", Nil, Nil, p, pf, <<>>, <<>>))

\* the application calls ChangeMenu, lines 155-165
CallChangeMenu(menu) ==
    /\ AppRuns
    /\ Becomes(ChangeMenu(Start, menu))
    /\ AppStep(Call("ChangeMenu", menu, Nil, <<>>, Nil, <<>>, <<>>))

\* ---------------------------------------------------------------- Display
\* Display up to its first getInput, lines 250-264
Display ==
    /\ pc = "idle"
    /\ Becomes([Start EXCEPT
           !.displaying = TRUE,
           !.selection[currentMenu] = 0,
           !.redrawPrevious = Redraw,
           !.Redraw = FALSE,
           !.out = <<Println("Welcome", 6)>>,
           !.cursor = 0,
           !.pc = "start"])
    /\ AppStep(Call("Display", Nil, Nil, <<>>, Nil, <<>>, <<>>))

\* the key that starts the menu, lines 264-267
StartKey ==
    /\ pc = "start"
    /\ Becomes([render(Start) EXCEPT !.Redraw = redrawPrevious,
                                     !.pc = "loop"])
    /\ DisplayStep(<<>>)

\* total of the DOWN case, lines 282-285, and the same sum in the UP case
lastIndex(s) ==
    optionCount(s, s.currentMenu) - 1
    + (IF hasSubMenus(s, s.currentMenu)
       THEN submenuCount(s, s.currentMenu) ELSE 0)

\* case "UP" wrapping to the last option, the submenus forgotten
caseUPForgetsSubMenus(s) ==
    LET cm == s.currentMenu
        s1 == [s EXCEPT !.selection[cm] = @ - 1]
        s2 == IF s1.selection[cm] < 0
              THEN [s1 EXCEPT !.selection[cm] = optionCount(s1, cm) - 1]
              ELSE s1
    IN render(s2)

\* case "UP", lines 271-279
caseUP(s) ==
    LET cm == s.currentMenu
        s1 == [s EXCEPT !.selection[cm] = @ - 1]
        s2 == IF s1.selection[cm] < 0
              THEN [s1 EXCEPT !.selection[cm] = lastIndex(s1)]
              ELSE s1
    IN render(s2)

\* case "DOWN", lines 280-289
caseDOWN(s) ==
    LET cm == s.currentMenu
        s1 == [s EXCEPT !.selection[cm] = @ + 1]
        s2 == IF s1.selection[cm] > lastIndex(s1)
              THEN [s1 EXCEPT !.selection[cm] = 0]
              ELSE s1
    IN render(s2)

\* case "BACK" assigning the current menu without ChangeMenu
caseBACKSkipsChangeMenu(s) ==
    IF s.previousMenu # Nil
    THEN render([s EXCEPT !.currentMenu = s.previousMenu])
    ELSE s

\* case "BACK" always going to the home menu
caseBACKGoesHome(s) ==
    IF s.previousMenu # Nil THEN ChangeMenu(s, homeMenu) ELSE s

\* case "BACK" using up the previous menu: none is left after the jump
caseBACKOnce(s) ==
    IF s.previousMenu # Nil
    THEN [ChangeMenu(s, s.previousMenu) EXCEPT !.previousMenu = Nil]
    ELSE s

\* case "BACK", lines 292-295
caseBACK(s) ==
    IF s.previousMenu # Nil THEN ChangeMenu(s, s.previousMenu) ELSE s

\* case "TOGGLE" flipping the flag before the render in both directions
caseTOGGLEFlipsFirst(s) ==
    IF s.Redraw
    THEN render([s EXCEPT !.Redraw = FALSE,
                          !.out = @ \o <<Println("redraw disabled", 2)>>])
    ELSE render([s EXCEPT !.Redraw = TRUE,
                          !.out = @ \o <<Println("redraw enabled", 2)>>])

\* case "TOGGLE", lines 296-305
caseTOGGLE(s) ==
    IF s.Redraw
    THEN render([s EXCEPT !.Redraw = FALSE,
                          !.out = @ \o <<Println("redraw disabled", 2)>>])
    ELSE [render([s EXCEPT !.out = @ \o <<Println("redraw enabled", 2)>>])
             EXCEPT !.Redraw = TRUE]

\* case "EXIT" handled as any other key: a miss does nothing
caseEXITAsOtherKey(s, cmd) ==
    IF cmd \in DOMAIN s.hotKeys[s.currentMenu]
    THEN execute(s, s.hotKeys[s.currentMenu][cmd])
    ELSE s

\* case "EXIT", lines 308-313, and the end of Display, lines 321 and 253
caseEXIT(s, cmd) ==
    IF cmd \notin DOMAIN s.hotKeys[s.currentMenu]
    THEN [s EXCEPT !.displaying = FALSE,
                   !.out = @ \o <<Println("", 1)>>,
                   !.pc = "idle"]
    ELSE execute(s, s.hotKeys[s.currentMenu][cmd])

\* the default case, lines 314-318
caseDefault(s, cmd) ==
    IF cmd \in DOMAIN s.hotKeys[s.currentMenu]
    THEN LET i == s.hotKeys[s.currentMenu][cmd]
         IN execute([s EXCEPT !.selection[s.currentMenu] = i], i)
    ELSE s

\* the switch of the loop, lines 270-319
switch(s, cmd) ==
    CASE cmd = sUP -> caseUP(s)
      [] cmd = sDOWN -> caseDOWN(s)
      [] cmd = sENTER -> execute(s, s.selection[s.currentMenu])
      [] cmd = sBACK -> caseBACK(s)
      [] cmd = sTOGGLE -> caseTOGGLE(s)
      [] cmd = <<>> -> s
      [] cmd = sEXIT -> caseEXIT(s, cmd)
      [] OTHER -> caseDefault(s, cmd)

\* one pass of the loop, lines 268-320, on the read of r.n bytes into r.bb
Command(r) ==
    /\ pc = "loop"
    /\ LET cmd == ToUpper(getInput(r.n, r.bb))
       IN /\ Becomes(switch(Start, cmd))
          /\ DisplayStep(cmd)

\* the callback returns into execute, lines 350-358
CallbackReturn ==
    /\ pc = "callback"
    /\ Becomes([Start EXCEPT
           !.out = <<Println("End", 1),
                     Println("(Press any key to continue)", 1)>>,
           !.pc = "anykey"])
    /\ DisplayStep(<<>>)

\* the key after a callback, lines 359-361
AnyKey ==
    /\ pc = "anykey"
    /\ Becomes([render([Start EXCEPT !.out = <<Println("", 1)>>])
                   EXCEPT !.pc = "loop"])
    /\ DisplayStep(<<>>)

\* the key of an error path going back to the loop without the render
ErrKeySkipsRender ==
    /\ pc = "errkey"
    /\ Becomes([Start EXCEPT !.pc = "loop"])
    /\ DisplayStep(<<>>)

\* the key of an error path, lines 372-373 and 381-382
ErrKey ==
    /\ pc = "errkey"
    /\ Becomes([render(Start) EXCEPT !.pc = "loop"])
    /\ DisplayStep(<<>>)

\* ------------------------------------------------------ the specification
\* the slice the application keeps for AddSubMenus: MaxSubs times A
AppChildren == [i \in 1 .. MaxSubs |-> "A"]

\* no entry in the map, and the application's array
NoTree == [arrays |-> Heap(AppChildren), subMenuMap |-> EmptyMap]

\* the names the application gave its menus: "xa", "ab", "b"
MenuNames == [m \in Menus |->
                 CASE m = "Home" -> <<120, 97>>
                   [] m = "A" -> <<97, 98>>
                   [] OTHER -> <<98>>]

\* the option names the application uses: "a", "b", "xB"
OptNames == {<<97>>, <<98>>, <<120, 66>>}

\* the static prompts the application sets: "", "p\r\nq"
Prompts == {<<>>, <<112, CR, LF, 113>>}

\* the reads of the session: the four arrow keys, enter, backtick, x,
\* and the letters a, B and z
Reads ==
    {[n |-> 3, bb |-> <<escape, 91, k>>] : k \in {up, down, left, right}}
    \cup {[n |-> 1, bb |-> <<k, 0, 0>>] :
             k \in {enter, backtick, exitX, 97, 66, 122}}

\* NewMenu for every menu (lines 66-78, with the prompt "" and no prompt
\* function) and NewMenuTree(homeMenu) (lines 54-61)
Init ==
    /\ name = MenuNames
    /\ prompt = [m \in Menus |-> <<>>]
    /\ promptFunction = [m \in Menus |-> Nil]
    /\ options = [m \in Menus |-> EmptyMap]
    /\ optionsOrder = [m \in Menus |-> <<>>]
    /\ selection = [m \in Menus |-> 0]
    /\ hotKeys = [m \in Menus |-> EmptyMap]
    /\ lastRenderLines = [m \in Menus |-> 0]
    /\ currentMenu = homeMenu
    /\ previousMenu = Nil
    /\ subMenuMap = EmptyMap
    /\ arrays = Heap(AppChildren)
    /\ displaying = FALSE
    /\ Redraw = TRUE
    /\ redrawPrevious = FALSE
    /\ pc = "idle"
    /\ input = <<>>
    /\ out = <<>>
    /\ cursor = 0
    /\ call = NoCall
    /\ bb = <<0, 0, 0>>
    /\ n = 0
    /\ ret = <<>>

\* ---- the application of Spec: it builds and prunes the home menu (options
\* on Home, the child A under Home) before, between and inside sessions,
\* and sets the prompt from a callback
MainFuncs == {"f"}
MainNames == {<<97>>, <<120, 66>>}

DoAddOption ==
    \E nm \in MainNames, function \in MainFuncs :
        /\ nm \in DOMAIN options[homeMenu]
           \/ Len(optionsOrder[homeMenu]) < MaxOpts
        /\ AddOption(homeMenu, nm, function)

DoDeleteOption == \E nm \in MainNames : DeleteOption(homeMenu, nm)

DoAddSubMenu ==
    /\ Len(subMenus(State, homeMenu)) < MaxSubs
    /\ AddSubMenu(homeMenu, "A")

DoAddSubMenus ==
    \E k \in 0 .. MaxSubs :
        /\ Len(subMenus(State, homeMenu)) + k <= MaxSubs
        /\ AddSubMenus(homeMenu, Slice(appArray, 0, k))

DoDeleteSubMenu == DeleteSubMenu(homeMenu, "A")

DoSetPrompt ==
    \E p \in Prompts, pf \in PromptFuncs \cup {Nil} :
        /\ pc = "callback"
        /\ SetPrompt(p, pf)

DoCommand == \E r \in Reads : Command(r)

Next ==
    \/ DoAddOption
    \/ DoDeleteOption
    \/ DoAddSubMenu
    \/ DoAddSubMenus
    \/ DoDeleteSubMenu
    \/ DoSetPrompt
    \/ Display
    \/ StartKey
    \/ DoCommand
    \/ CallbackReturn
    \/ AnyKey
    \/ ErrKey

Spec == Init /\ [][Next]_vars

\* ---- the application of SpecNav: it built its tree before the session and
\* leaves it alone; it jumps between menus with ChangeMenu
NavOpts == 2
NavSubs == 2

\* the options in the order the application added them, per menu
NavOrder == [m \in Menus |->
                CASE m = "Home" -> << <<97>>, <<120, 66>>, <<98>>, <<66>> >>
                  [] m = "A" -> << <<98>> >>
                  [] OTHER -> <<>>]
\* the children in the order the application added them, per parent
NavChildren == [m \in Menus |->
                   CASE m = "Home" -> <<"A", "Home", "B", "A">>
                     [] m = "A" -> <<"B", "Home", "A", "B">>
                     [] OTHER -> <<>>]

Prefix(seq, k) == SubSeq(seq, 1, IF k < Len(seq) THEN k ELSE Len(seq))

\* the tree after AddOption for the first k names of Home (and A's option)
\* and AddSubMenu for the first j children of Home and of A
InitNav ==
    \E k \in 0 .. NavOpts, j \in 0 .. NavSubs :
        LET order == [m \in Menus |->
                         IF m = "Home" THEN Prefix(NavOrder[m], k)
                         ELSE NavOrder[m]]
            kids == [m \in Menus |->
                        IF m = "Home" THEN Prefix(NavChildren[m], j)
                        ELSE Prefix(NavChildren[m], j)]
            tree == built(built(NoTree, "Home", kids["Home"]), "A", kids["A"])
        IN /\ name = MenuNames
           /\ prompt = [m \in Menus |-> <<>>]
           /\ promptFunction = [m \in Menus |-> Nil]
           /\ optionsOrder = order
           /\ options = [m \in Menus |->
                            [nm \in {order[m][x] : x \in DOMAIN order[m]}
                                |-> "f"]]
           /\ selection = [m \in Menus |-> 0]
           /\ hotKeys = [m \in Menus |-> EmptyMap]
           /\ lastRenderLines = [m \in Menus |-> 0]
           /\ currentMenu = homeMenu
           /\ previousMenu = Nil
           /\ subMenuMap = tree.subMenuMap
           /\ arrays = tree.arrays
           /\ displaying = FALSE
           /\ Redraw = TRUE
           /\ redrawPrevious = FALSE
           /\ pc = "idle"
           /\ input = <<>>
           /\ out = <<>>
           /\ cursor = 0
           /\ call = NoCall
           /\ bb = <<0, 0, 0>>
           /\ n = 0
           /\ ret = <<>>

DoChangeMenu ==
    \E menu \in Menus :
        /\ pc = "callback" \/ (pc = "idle" /\ currentMenu = homeMenu)
        /\ CallChangeMenu(menu)

NextNav ==
    \/ DoChangeMenu
    \/ Display
    \/ StartKey
    \/ DoCommand
    \/ CallbackReturn
    \/ AnyKey
    \/ ErrKey

SpecNav == InitNav /\ [][NextNav]_vars

\* ---- SpecOptions: the application only edits the option lists of two
\* menus, with every name and both callbacks
OptMenus == {"Home", "A"}

DoAddAnyOption ==
    \E m \in OptMenus, nm \in OptNames, function \in Funcs :
        /\ nm \in DOMAIN options[m] \/ Len(optionsOrder[m]) < MaxOpts
        /\ AddOption(m, nm, function)

DoDeleteAnyOption ==
    \E m \in OptMenus, nm \in OptNames : DeleteOption(m, nm)

NextOptions == DoAddAnyOption \/ DoDeleteAnyOption

SpecOptions == Init /\ [][NextOptions]_vars

\* ---- SpecInput: the reads of getInput, one after the other
\* the byte values read: ctrl-C, CR, ESC, 'A'..'D', '`', 'a' and 'x'
ByteVals == {ctrlC, enter, escape, up, down, right, left, backtick, 97,
             exitX}

\* tty.Read fills the first k bytes of the fresh buffer, lines 416-417,
\* and getInput decodes it
Read ==
    \E k \in 0 .. 3 :
        \E data \in [1 .. k -> ByteVals] :
            /\ bb' = [i \in 1 .. 3 |-> IF i <= k THEN data[i] ELSE 0]
            /\ n' = k
            /\ ret' = getInput(n', bb')
            /\ UNCHANGED <<menuVars, treeVars, ctlVars>>

NextInput == Read

SpecInput == Init /\ [][NextInput]_vars

\* ---- SpecHotkey: the first render of a home menu whose options and
\* children carry any names of HotNames
\* "", "a", "A", "x", "ax", "xa", "Ab", "bX"
HotNames == {<<>>, <<97>>, <<65>>, <<120>>, <<97, 120>>, <<120, 97>>,
             <<65, 98>>, <<98, 88>>}

\* the sequences of at most k different names
RECURSIVE NoDupSeqs(_, _)
NoDupSeqs(S, k) ==
    IF k = 0 THEN {<<>>}
    ELSE LET shorter == NoDupSeqs(S, k - 1)
         IN shorter \cup
            {Append(q, x) : <<q, x>> \in
                {<<q, x>> \in shorter \X S :
                    /\ Len(q) = k - 1
                    /\ \A i \in DOMAIN q : q[i] # x}}

\* Home after AddOption for each name of order (no name twice, as AddOption
\* leaves it) and AddSubMenu for the children A and B
InitHotkey ==
    \E order \in NoDupSeqs(HotNames, MaxOpts), nameA \in HotNames,
       kids \in {<<>>, <<"A">>, <<"A", "B">>} :
        /\ name = [m \in Menus |-> IF m = "A" THEN nameA ELSE MenuNames[m]]
        /\ prompt = [m \in Menus |-> <<>>]
        /\ promptFunction = [m \in Menus |-> Nil]
        /\ optionsOrder = [m \in Menus |-> IF m = homeMenu THEN order
                                           ELSE <<>>]
        /\ options = [m \in Menus |->
                         IF m = homeMenu
                         THEN [nm \in {order[x] : x \in DOMAIN order} |-> "f"]
                         ELSE EmptyMap]
        /\ selection = [m \in Menus |-> 0]
        /\ hotKeys = [m \in Menus |-> EmptyMap]
        /\ lastRenderLines = [m \in Menus |-> 0]
        /\ currentMenu = homeMenu
        /\ previousMenu = Nil
        /\ subMenuMap = built(NoTree, homeMenu, kids).subMenuMap
        /\ arrays = built(NoTree, homeMenu, kids).arrays
        /\ displaying = FALSE
        /\ Redraw = TRUE
        /\ redrawPrevious = FALSE
        /\ pc = "idle"
        /\ input = <<>>
        /\ out = <<>>
        /\ cursor = 0
        /\ call = NoCall
        /\ bb = <<0, 0, 0>>
        /\ n = 0
        /\ ret = <<>>

NextHotkey == Display \/ StartKey

SpecHotkey == InitHotkey /\ [][NextHotkey]_vars

\* ---- SpecPrompt: the first render of a home menu whose prompt is any
\* string of carriage returns, line feeds and the letter p
MaxPrompt == 4
PromptChars == {CR, LF, 112}
PromptStrings == UNION {[1 .. k -> PromptChars] : k \in 0 .. MaxPrompt}

\* the application set the same static prompt on Home and on A (ChangeMenu
\* and SetPrompt, lines 155-165 and 93-101) and came back to Home; A is not
\* rendered in this session, so its prompt stays as the application wrote it
InitPrompt ==
    \E p \in PromptStrings :
        /\ name = MenuNames
        /\ prompt = [m \in Menus |-> IF m = "B" THEN <<>> ELSE p]
        /\ promptFunction = [m \in Menus |-> Nil]
        /\ options = [m \in Menus |-> EmptyMap]
        /\ optionsOrder = [m \in Menus |-> <<>>]
        /\ selection = [m \in Menus |-> 0]
        /\ hotKeys = [m \in Menus |-> EmptyMap]
        /\ lastRenderLines = [m \in Menus |-> 0]
        /\ currentMenu = homeMenu
        /\ previousMenu = Nil
        /\ subMenuMap = EmptyMap
        /\ arrays = Heap(AppChildren)
        /\ displaying = FALSE
        /\ Redraw = TRUE
        /\ redrawPrevious = FALSE
        /\ pc = "idle"
        /\ input = <<>>
        /\ out = <<>>
        /\ cursor = 0
        /\ call = NoCall
        /\ bb = <<0, 0, 0>>
        /\ n = 0
        /\ ret = <<>>

NextPrompt == Display \/ StartKey

SpecPrompt == InitPrompt /\ [][NextPrompt]_vars

\* ---- SpecSlices: the application keeps one slice s = [A, B] and passes
\* s[:k] to AddSubMenus for two parents, so that the entries of the map can
\* share s's array; it also adds and deletes single children
MaxShared == 2
SharedChildren == <<"A", "B">>
SharedParents == {"Home", "A"}
SharedKids == {"A", "B"}

InitSlices ==
    /\ name = MenuNames
    /\ prompt = [m \in Menus |-> <<>>]
    /\ promptFunction = [m \in Menus |-> Nil]
    /\ options = [m \in Menus |-> EmptyMap]
    /\ optionsOrder = [m \in Menus |-> <<>>]
    /\ selection = [m \in Menus |-> 0]
    /\ hotKeys = [m \in Menus |-> EmptyMap]
    /\ lastRenderLines = [m \in Menus |-> 0]
    /\ currentMenu = homeMenu
    /\ previousMenu = Nil
    /\ subMenuMap = EmptyMap
    /\ arrays = Heap(SharedChildren)
    /\ displaying = FALSE
    /\ Redraw = TRUE
    /\ redrawPrevious = FALSE
    /\ pc = "idle"
    /\ input = <<>>
    /\ out = <<>>
    /\ cursor = 0
    /\ call = NoCall
    /\ bb = <<0, 0, 0>>
    /\ n = 0
    /\ ret = <<>>

DoAddSharedSubMenus ==
    \E p \in SharedParents, k \in 0 .. Len(SharedChildren) :
        /\ submenuCount(State, p) + k <= MaxShared
        /\ AddSubMenus(p, Slice(appArray, 0, k))

DoAddSharedSubMenu ==
    \E p \in SharedParents, c \in SharedKids :
        /\ submenuCount(State, p) < MaxShared
        /\ AddSubMenu(p, c)

DoDeleteSharedSubMenu ==
    \E p \in SharedParents, c \in SharedKids : DeleteSubMenu(p, c)

NextSlices ==
    \/ DoAddSharedSubMenus
    \/ DoAddSharedSubMenu
    \/ DoDeleteSharedSubMenu

SpecSlices == InitSlices /\ [][NextSlices]_vars

\* ================================================================ claims
\* optionCount + submenuCount of menu m in the current state
total(m) == optionCount(State, m) + submenuCount(State, m)

\* the events of kind k among those the last step printed
Printed(k) == {i \in DOMAIN out : out[i][1] = k}

\* ---------------------------------------------------------------------- C1
C1_InRange ==
    \A m \in Menus : total(m) > 0 => selection[m] \in 0 .. total(m) - 1

C1_Step ==
    LET cm == currentMenu
        t == total(cm)
        s == selection[cm]
    IN (input' \in {sUP, sDOWN} /\ pc = "loop" /\ t > 0 /\ s \in 0 .. t - 1)
       => /\ currentMenu' = cm
          /\ selection'[cm] =
                 IF input' = sUP THEN (IF s = 0 THEN t - 1 ELSE s - 1)
                 ELSE (IF s = t - 1 THEN 0 ELSE s + 1)

\* C1: on a tree that is not changed, with N options and M submenus,
\* N+M > 0, the selection of every menu stays in [0, N+M); an UP command at
\* 0 yields N+M-1 and otherwise subtracts 1, a DOWN command at N+M-1 yields 0
\* and otherwise adds 1.
C1_UpDownWrap == []C1_InRange /\ [][C1_Step]_vars

\* an UP command wrapped from 0 to the last submenu of a menu that has
\* options and submenus
C1_Witness ==
    /\ input = sUP
    /\ pc = "loop"
    /\ optionCount(State, currentMenu) > 0
    /\ submenuCount(State, currentMenu) > 0
    /\ selection[currentMenu] = total(currentMenu) - 1

\* ---------------------------------------------------------------------- C2
C2_Step ==
    \A target \in Menus :
        call' = Call("ChangeMenu", target, Nil, <<>>, Nil, <<>>, <<>>)
        => /\ currentMenu' = target
           /\ previousMenu' = IF target = homeMenu THEN Nil ELSE currentMenu

\* C2: a call ChangeMenu(target) makes target the current menu; the previous
\* menu becomes none when target is the home menu and the menu that was
\* current before the call otherwise.
C2_ChangeMenuSetsPrevious == [][C2_Step]_vars

\* the application jumped from A to B
C2_Witness ==
    /\ call = Call("ChangeMenu", "B", Nil, <<>>, Nil, <<>>, <<>>)
    /\ currentMenu = "B"
    /\ previousMenu = "A"

\* ---------------------------------------------------------------------- C3
\* C3: in every state reached by ChangeMenu calls and Display commands, the
\* previous menu is none if and only if the current menu is the home menu.
C3_PreviousNoneIffHome == (previousMenu = Nil) <=> (currentMenu = homeMenu)

\* ENTER on a submenu entry that is the home menu brought the session home
C3_Witness ==
    /\ input = sENTER
    /\ pc = "loop"
    /\ Printed("block") # {}
    /\ currentMenu = homeMenu
    /\ previousMenu = Nil

\* ---------------------------------------------------------------------- C4
\* the item lines of the block the last step printed
ItemLines ==
    LET b == CHOOSE i \in Printed("block") : TRUE
        ls == out[b][3]
    IN SelectSeq(ls, LAMBDA l : l[1] \in {"option", "subMenu"})

\* C4: in the block a render printed no two items carry the same uppercased
\* hotkey letter, each item's letter leads to that item in the hotkey table,
\* and X is never a key of a menu's hotkey table.
C4_HotkeysDistinct ==
    /\ \A m \in Menus : <<88>> \notin DOMAIN hotKeys[m]
    /\ Printed("block") # {} =>
         \A i, j \in DOMAIN ItemLines :
             LET hi == ItemLines[i][2]
                 hj == ItemLines[j][2]
             IN /\ (i # j /\ hi # <<>> /\ hj # <<>>)
                      => ToUpper(hi) # ToUpper(hj)
                /\ hi # <<>> =>
                      /\ ToUpper(hi) \in DOMAIN hotKeys[currentMenu]
                      /\ hotKeys[currentMenu][ToUpper(hi)] = i - 1

\* three items were rendered, two got different letters and one, whose
\* letters were taken or reserved, got none
C4_Witness ==
    /\ Printed("block") # {}
    /\ Len(ItemLines) = 3
    /\ \E i, j, k \in DOMAIN ItemLines :
           /\ i < j
           /\ ItemLines[i][2] # <<>>
           /\ ItemLines[j][2] # <<>>
           /\ ItemLines[k][2] = <<>>
           /\ k = 2

\* ---------------------------------------------------------------------- C5
C5_Step ==
    \A m \in Menus, nm \in OptNames, function \in Funcs :
        (/\ call' = Call("AddOption", m, Nil, nm, function, <<>>,
                         optionsOrder[m])
         /\ nm \in DOMAIN options[m])
        => /\ optionsOrder'[m] =
                  Append(SelectSeq(optionsOrder[m], LAMBDA x : x # nm), nm)
           /\ Cardinality({i \in DOMAIN optionsOrder'[m] :
                               optionsOrder'[m][i] = nm}) = 1
           /\ DOMAIN options'[m] = DOMAIN options[m]
           /\ options'[m][nm] = function
           /\ \A x \in DOMAIN options[m] \ {nm} :
                  options'[m][x] = options[m][x]

\* C5: AddOption(name, f) on a menu that has an option called name leaves
\* name once in the order sequence, last, keeps the order of the other names
\* and binds name to f.
C5_ReAddMovesLast == [][C5_Step]_vars

\* a name that was first of three was added again with the callback g:
\* the two other names kept their order in front of it
C5_Witness ==
    /\ call[1] = "AddOption"
    /\ call[5] = "g"
    /\ Len(call[7]) = 3
    /\ call[7][1] = call[4]
    /\ optionsOrder[call[2]] = <<call[7][2], call[7][3], call[4]>>
    /\ options[call[2]][call[4]] = "g"

\* ---------------------------------------------------------------------- C6
\* C6: after any AddOption and DeleteOption calls, the order sequence of a
\* menu has no name twice and its names are the keys of the option map.
C6_OrderMirrorsMap ==
    \A m \in Menus :
        /\ \A i, j \in DOMAIN optionsOrder[m] :
               i # j => optionsOrder[m][i] # optionsOrder[m][j]
        /\ {optionsOrder[m][i] : i \in DOMAIN optionsOrder[m]}
               = DOMAIN options[m]

\* DeleteOption took the first of two names away
C6_Witness ==
    /\ call[1] = "DeleteOption"
    /\ Len(call[7]) = 2
    /\ call[7][1] = call[4]
    /\ optionsOrder[call[2]] = <<call[7][2]>>
    /\ DOMAIN options[call[2]] = {call[7][2]}

\* ---------------------------------------------------------------------- C7
\* C7: the selection of a menu with optionCount+submenuCount > 0 is in
\* [0, optionCount+submenuCount) in every reachable state, the states that
\* DeleteOption and DeleteSubMenu produce included: here, in the state a
\* DeleteOption or DeleteSubMenu call leaves, for the menu it edited, when
\* the cursor was in range of the items the call found.
C7_SelectionInRangeAfterDelete ==
    LET m == call[2]
        before == IF call[1] = "DeleteOption"
                  THEN Len(call[7]) + submenuCount(State, m)
                  ELSE optionCount(State, m) + Len(call[7])
    IN (/\ call[1] \in {"DeleteOption", "DeleteSubMenu"}
        /\ selection[m] \in 0 .. before - 1
        /\ total(m) > 0)
       => selection[m] \in 0 .. total(m) - 1

\* ---------------------------------------------------------------------- C8
C8_Step ==
    (/\ input' \in {sUP, sDOWN}
     /\ pc = "loop"
     /\ total(currentMenu) = 0
     /\ selection[currentMenu] = 0)
    => selection'[currentMenu] = 0

\* C8: on a current menu with no options and no submenus, an UP or a DOWN
\* command leaves the selection at 0.
C8_EmptyMenuHoldsZero == [][C8_Step]_vars

\* ---------------------------------------------------------------------- C9
C9_Replaced ==
    \A p \in Prompts, pf \in PromptFuncs \cup {Nil} :
        call' = Call("SetPrompt", Nil, Nil, p, pf, <<>>, <<>>)
        => /\ promptFunction'[currentMenu] = pf
           /\ pf = Nil => prompt'[currentMenu] = p
           /\ pf # Nil => prompt'[currentMenu] = <<>>

\* C9 as claimed: SetPrompt in an active session replaces the current menu's
\* prompt and re-renders the current menu as part of the call.
C9_SetPromptRerenders ==
    [][(call'[1] = "SetPrompt" /\ displaying)
       => (C9_Replaced /\ \E i \in DOMAIN out' : out'[i][1] = "block")]_vars

\* C9 amended: SetPrompt in an active session replaces the current menu's
\* prompt (the static text, or the prompt function with the text cleared)
\* and renders nothing: it prints nothing and leaves the hotkey tables, the
\* line counts, the selections and the menu pointers as they were.
C9_SetPromptOnlyStores ==
    [][(call'[1] = "SetPrompt" /\ displaying)
       => /\ C9_Replaced
          /\ out' = <<>>
          /\ UNCHANGED <<hotKeys, lastRenderLines, selection, currentMenu,
                         previousMenu, displaying, pc>>]_vars

\* a callback of the session set a static prompt that no render has
\* normalized yet
C9_Witness ==
    /\ call[1] = "SetPrompt"
    /\ displaying
    /\ pc = "callback"
    /\ call[4] = <<112, CR, LF, 113>>
    /\ prompt[currentMenu] = call[4]
    /\ out = <<>>

\* --------------------------------------------------------------------- C10
\* C10: a read of 3 bytes decodes by its third byte alone (65 UP, 66 DOWN,
\* 68 BACK, 67 ENTER, else DOWN), a shorter read by its first byte alone
\* (13 ENTER, 27 BACK, 96 TOGGLE, 120 or 3 EXIT, else that character).
C10_DecodeByOneByte ==
    ret # <<>> =>
        IF n = 3
        THEN ret = (CASE bb[3] = 65 -> <<85, 80>>
                      [] bb[3] = 66 -> <<68, 79, 87, 78>>
                      [] bb[3] = 68 -> <<66, 65, 67, 75>>
                      [] bb[3] = 67 -> <<69, 78, 84, 69, 82>>
                      [] OTHER -> <<68, 79, 87, 78>>)
        ELSE ret = (CASE bb[1] = 13 -> <<69, 78, 84, 69, 82>>
                      [] bb[1] = 27 -> <<66, 65, 67, 75>>
                      [] bb[1] = 96 -> <<84, 79, 71, 71, 76, 69>>
                      [] bb[1] \in {120, 3} -> <<69, 88, 73, 84>>
                      [] OTHER -> <<bb[1]>>)

\* a 3-byte read that does not begin with ESC and ends in 65 gave UP
C10_Witness ==
    /\ n = 3
    /\ bb[1] # 27
    /\ bb[2] = 13
    /\ bb[3] = 65
    /\ ret = <<85, 80>>

\* --------------------------------------------------------------------- C11
C11_Step ==
    LET cm == currentMenu
        N == optionCount(State, cm)
        kids == subMenus(State, cm)
        hit == input' \in DOMAIN hotKeys[cm]
        i == IF input' = sENTER THEN selection[cm] ELSE hotKeys[cm][input']
    IN (/\ pc = "loop"
        /\ input' = sENTER \/ hit
        /\ i >= N
        /\ i < N + Len(kids))
       => /\ currentMenu' = kids[i - N + 1]
          /\ previousMenu' = IF kids[i - N + 1] = homeMenu THEN Nil ELSE cm
          /\ \A e \in DOMAIN out' : out'[e][1] # "call"
          /\ pc' = "loop"

\* C11: ENTER, or a hotkey hit, with an index i in the submenu range
\* [N, N+M) of the current menu P makes the child at offset i-N of P's child
\* list the current menu and P the previous menu (none when the child is the
\* home menu), and invokes no option callback.
C11_EnterSubMenu == [][C11_Step]_vars

\* the hotkey A of Home's child A was pressed on the home menu
C11_Witness ==
    /\ input = <<65>>
    /\ pc = "loop"
    /\ Printed("block") # {}
    /\ currentMenu = "A"
    /\ previousMenu = homeMenu

\* --------------------------------------------------------------------- C12
C12_Step ==
    /\ (pc = "loop" /\ input' = sEXIT)
          => (~displaying' /\ pc' = "idle")
    /\ (displaying /\ ~displaying') => (pc = "loop" /\ input' = sEXIT)

\* C12: every EXIT the main loop decodes sets displaying to false and ends
\* the loop, whatever the hotkey table holds (no table holds the key "EXIT"),
\* and displaying goes from true to false in no other step.
C12_ExitEndsSession ==
    /\ [](\A m \in Menus : sEXIT \notin DOMAIN hotKeys[m])
    /\ [][C12_Step]_vars

\* EXIT ended a session whose menu had hotkeys
C12_Witness ==
    /\ input = sEXIT
    /\ pc = "idle"
    /\ ~displaying
    /\ DOMAIN hotKeys[currentMenu] # {}

\* --------------------------------------------------------------------- C13
\* the prompt with each "\r\n" or "\n\r" line break, taken from the left,
\* written as a single "\n"
RECURSIVE SingleBreaks(_, _)
SingleBreaks(p, k) ==
    IF k > Len(p) THEN <<>>
    ELSE IF k < Len(p) /\ {p[k], p[k + 1]} = {CR, LF}
         THEN <<LF>> \o SingleBreaks(p, k + 2)
         ELSE <<p[k]>> \o SingleBreaks(p, k + 1)

\* the lines of a string whose only line break is "\n": one more than its
\* line feeds, and none for the empty prompt, which render skips
BreakCount(p) ==
    IF p = <<>> THEN 0
    ELSE 1 + Cardinality({i \in DOMAIN p : p[i] = LF})

\* the prompt lines of the block the last step printed
PromptLineCount ==
    LET b == CHOOSE i \in Printed("block") : TRUE
    IN Cardinality({i \in DOMAIN out[b][3] : out[b][3][i][1] = "prompt"})

\* C13: for every prompt of carriage returns, line feeds and text, render
\* prints as many prompt lines as the same prompt has with each "\r\n" or
\* "\n\r" line break written as a single "\n".
C13_PromptLineCount ==
    (pc = "loop" /\ Printed("block") # {})
    => PromptLineCount = BreakCount(SingleBreaks(prompt["A"], 1))

\* the prompt "\r\n\n\r" was rendered as three lines and stored as "\n\n"
C13_Witness ==
    /\ pc = "loop"
    /\ Printed("block") # {}
    /\ prompt["A"] = <<CR, LF, LF, CR>>
    /\ prompt[homeMenu] = <<LF, LF>>
    /\ PromptLineCount = 3

\* --------------------------------------------------------------------- C14
C14_Step ==
    (pc = "loop" /\ input' = sBACK)
    => IF previousMenu # Nil
       THEN /\ currentMenu' = previousMenu
            /\ previousMenu' = IF previousMenu = homeMenu THEN Nil
                               ELSE currentMenu
       ELSE /\ UNCHANGED <<currentMenu, previousMenu, hotKeys,
                           lastRenderLines>>
            /\ out' = <<>>

\* C14: a BACK command when the previous menu is a menu P makes P the
\* current menu and the menu that was current the previous menu, none when P
\* is the home menu; a BACK command when the previous menu is none changes
\* neither pointer and renders nothing.
C14_BackSwapsOrNothing == [][C14_Step]_vars

\* a BACK command on B went to A and left B as the previous menu
C14_Witness ==
    /\ input = sBACK
    /\ pc = "loop"
    /\ Printed("block") # {}
    /\ currentMenu = "A"
    /\ previousMenu = "B"

\* --------------------------------------------------------------------- C15
\* the first BACK after ENTER made B current with A, entered from Home,
\* as the previous menu
C15_FirstBack ==
    /\ pc = "loop"
    /\ input = sENTER
    /\ input' = sBACK
    /\ currentMenu = "B"
    /\ previousMenu = "A"

\* the state the first BACK leaves, and a second BACK in a row
C15_SecondBack ==
    /\ pc = "loop"
    /\ input = sBACK
    /\ input' = sBACK
    /\ currentMenu = "A"
    /\ previousMenu = "B"

\* C15 as claimed: after Home -> A -> B by ENTER the first BACK makes A the
\* current menu and a second BACK in a row is a no-op, the current menu
\* stays A.
C15_SecondBackNoOp ==
    [][/\ C15_FirstBack => currentMenu' = "A"
       /\ C15_SecondBack => currentMenu' = "A"]_vars

\* C15 amended: after Home -> A -> B by ENTER the first BACK makes A the
\* current menu and B the previous menu, and a second BACK in a row makes B
\* the current menu again, with A as the previous menu.
C15_SecondBackReturns ==
    [][/\ C15_FirstBack => (currentMenu' = "A" /\ previousMenu' = "B")
       /\ C15_SecondBack => (currentMenu' = "B" /\ previousMenu' = "A")]_vars

\* a BACK command on A, whose previous menu was B, rendered B again
C15_Witness ==
    /\ input = sBACK
    /\ pc = "loop"
    /\ Printed("block") # {}
    /\ currentMenu = "B"
    /\ previousMenu = "A"
    /\ lastRenderLines["A"] > 0

\* --------------------------------------------------------------------- C16
\* what the error path leaves alone
C16_Kept ==
    UNCHANGED <<currentMenu, previousMenu, selection, options, optionsOrder,
                subMenuMap, arrays, displaying>>

C16_Step ==
    /\ (/\ pc = "loop"
        /\ input' = sENTER
        /\ selection[currentMenu] \notin 0 .. total(currentMenu) - 1)
       => /\ pc' = "errkey"
          /\ \A e \in DOMAIN out' : out'[e][1] = "print"
          /\ C16_Kept
    /\ pc = "errkey"
       => /\ pc' = "loop"
          /\ \E e \in DOMAIN out' : out'[e][1] = "block"
          /\ \A e \in DOMAIN out' : out'[e][1] # "call"
          /\ C16_Kept

\* C16: execute with an index outside the option range and the submenu
\* range of the current menu, the menu with no entry in the submenu relation
\* included, invokes no callback, waits for one key, renders again on that
\* key, and leaves the menu pointers, the selection, the options and the
\* submenu relation as they were.
C16_ErrorPathKeepsState == [][C16_Step]_vars

\* ENTER on a menu whose child list is there but empty took the error path
C16_Witness ==
    /\ pc = "errkey"
    /\ input = sENTER
    /\ Printed("print") # {}
    /\ hasSubMenus(State, currentMenu)
    /\ selection[currentMenu] \notin 0 .. total(currentMenu) - 1

\* --------------------------------------------------------------------- C17
\* the block of the step's output, and whether the step's output is an
\* erase that takes the cursor to the row where the last block began,
\* followed by the new block
C17_Stored ==
    \A b \in DOMAIN out' :
        out'[b][1] = "block" => lastRenderLines'[currentMenu'] = out'[b][2]

C17_InPlace ==
    /\ Len(out') = 2
    /\ out'[1] = CursorUp(cursor)
    /\ out'[2][1] = "block"

C17_Step ==
    /\ C17_Stored
    /\ (pc = "loop" /\ input' \in {sUP, sDOWN} /\ Redraw) => C17_InPlace

\* C17: every render stores in lastRenderLines the rows the cursor advances
\* while the block is printed, and with redraw enabled the cursor-up of the
\* render of every UP and DOWN command takes the cursor to the row where the
\* previous render began, so the block's first row does not move.
C17_RedrawInPlace == [][C17_Step]_vars

\* a DOWN command redrew, over itself, a menu of two items and a back line
C17_Witness ==
    /\ input = sDOWN
    /\ pc = "loop"
    /\ Redraw
    /\ Len(out) = 2
    /\ out[1][1] = "cursorUp"
    /\ out[1][2] = cursor
    /\ total(currentMenu) = 2
    /\ selection[currentMenu] = 1
    /\ previousMenu # Nil

\* --------------------------------------------------------------------- C18
C18_Step ==
    (pc = "loop" /\ input' = sTOGGLE)
    => /\ Redraw' = ~Redraw
       /\ \E e \in DOMAIN out' : out'[e][1] = "block"
       /\ \A e \in DOMAIN out' : out'[e][1] # "cursorUp"

\* C18: every TOGGLE command flips the redraw flag, and the render it
\* performs emits no cursor-up, whether it turns redraw off or on.
C18_ToggleNeverErases == [][C18_Step]_vars

\* a TOGGLE turned redraw on for a menu that had been rendered before
C18_Witness ==
    /\ input = sTOGGLE
    /\ pc = "loop"
    /\ Redraw
    /\ Printed("block") # {}
    /\ Printed("cursorUp") = {}
    /\ total(currentMenu) > 0

\* --------------------------------------------------------------------- C19
\* C19: a render of the current menu prints the "SubMenus:" heading only
\* if the current menu has at least one submenu, in every reachable state,
\* those after DeleteSubMenu of every child and after AddSubMenus with an
\* empty list included.
C19_HeadingOnlyWithSubMenus ==
    \A b \in Printed("block") :
        (\E l \in DOMAIN out[b][3] : out[b][3][l][1] = "SubMenus:")
        => submenuCount(State, currentMenu) >= 1

\* --------------------------------------------------------------------- C20
\* C20: when execute took a submenu error path with redraw enabled, the
\* cursor-up of the render that follows takes the cursor to the row where
\* the replaced block began: lastRenderLines + 2 is the number of rows
\* between that row and the cursor.
C20_ErrorRedrawInPlace ==
    [][(pc = "errkey" /\ Redraw /\ pc' = "loop")
       => (/\ lastRenderLines[currentMenu] = cursor
           /\ C17_InPlace)]_vars

====
